---- MODULE Spec2Model ----
(***************************************************************************)
(* A model of shaka.util.StreamUtils (lib/util/stream_utils.js): the       *)
(* restriction filter, the compatibility filter, the language/role         *)
(* selector and the lookup helpers, over a Period of Variants and text     *)
(* Streams.                                                                *)
(*                                                                         *)
(* Strings that the code splits are sequences of their fields: a language  *)
(* "en-US" is <<"en", "US">> (split on '-'), a codecs string "avc1.4d" is  *)
(* <<"avc1", "4d">> (split on '.').  The empty string is <<>>.  A null     *)
(* reference is the record Null.                                           *)
(***************************************************************************)
EXTENDS Integers, Sequences, FiniteSets, TLC

VARIABLES period, call, ret

vars == <<period, call, ret>>

\* ------------------------------------------------------------------ bounds

\* The longest variant list and text stream list of a period.
MaxVariants == 2
MaxTextStreams == 2

\* The largest width and height of a video stream, and the largest bandwidth
\* of a variant.
MaxDim == 2
MaxBandwidth == 2

\* The longest sequence of calls that change the period.
MaxCalls == 3

\* The longest period list of a manifest, and the latest start time and
\* query time, in units of half the gap/overlap tolerance.
MaxPeriods == 3
MaxTime == 6

\* Number.POSITIVE_INFINITY, the default of an absent upper bound: above
\* every width, height, pixel count and bandwidth.
Infinity == MaxDim * MaxDim + MaxBandwidth + 1

\* ------------------------------------------------------------- data model

Null == [type |-> "null"]

ContentType == [AUDIO |-> "audio", VIDEO |-> "video", TEXT |-> "text"]

MkStream(id, type, language, roles, primary) ==
  [id |-> id, type |-> type, language |-> language, roles |-> roles,
   primary |-> primary, mimeType |-> "mp4", codecs |-> <<"c">>,
   encrypted |-> FALSE, width |-> 0, height |-> 0]

MkVariant(id, audio, video, language, primary, byApp, byKeySystem) ==
  [id |-> id, audio |-> audio, video |-> video, bandwidth |-> 0,
   language |-> language, primary |-> primary,
   allowedByApplication |-> byApp, allowedByKeySystem |-> byKeySystem]

\* Array.prototype.filter is SelectSeq; Range is the set of an array's
\* elements.
Range(s) == {s[i] : i \in 1..Len(s)}

\* The call and the result before any operation has run.  A call records the
\* operation, its arguments, and n, the number of calls made so far.
NoCall == [op |-> "none", n |-> 0]
NoRet == [kind |-> "none"]

\* ---------------------------------------------------------- LanguageUtils

MatchType == [EXACT |-> "EXACT", BASE_LANGUAGE_OKAY |-> "BASE_LANGUAGE_OKAY",
              OTHER_SUB_LANGUAGE_OKAY |-> "OTHER_SUB_LANGUAGE_OKAY"]

\* String.prototype.toLowerCase on the subtags the model uses.
toLowerCase(s) ==
  CASE s = "US" -> "us"
    [] s = "GB" -> "gb"
    [] s = "EN" -> "en"
    [] OTHER -> s

\* LanguageUtils.normalize: lower case, and at most the first two subtags.
normalize(lang) ==
  [i \in 1..(IF Len(lang) > 2 THEN 2 ELSE Len(lang)) |-> toLowerCase(lang[i])]

\* LanguageUtils.match(fuzz, preference, candidate), both normalized.
match(fuzz, preference, candidate) ==
  \/ candidate = preference
  \/ /\ fuzz \in {MatchType.BASE_LANGUAGE_OKAY,
                  MatchType.OTHER_SUB_LANGUAGE_OKAY}
     /\ candidate = <<preference[1]>>
  \/ /\ fuzz = MatchType.OTHER_SUB_LANGUAGE_OKAY
     /\ candidate[1] = preference[1]

\* ------------------------------------------------------ playable variants

\* Mutant of isPlayable: either permission is enough.
isPlayableEither(variant) ==
  variant.allowedByApplication \/ variant.allowedByKeySystem

isPlayable(variant) ==
  variant.allowedByApplication /\ variant.allowedByKeySystem

getPlayableVariants(variants) == SelectSeq(variants, isPlayable)

\* ---------------------------------------------------- language/role selector

\* One pass of the forEach(matchType) callback over the entries: the first
\* match replaces the running selection, later matches are pushed onto it.
RECURSIVE languageTier(_, _, _, _, _)
languageTier(entries, pref, matchType, chosen, betterLangMatchFound) ==
  IF entries = <<>> THEN chosen
  ELSE LET entry == Head(entries)
           lang == normalize(entry.language)
       IN IF match(matchType, normalize(pref), lang)
          THEN languageTier(Tail(entries), pref, matchType,
                            IF betterLangMatchFound
                              THEN Append(chosen, entry) ELSE <<entry>>,
                            TRUE)
          ELSE languageTier(Tail(entries), pref, matchType, chosen,
                            betterLangMatchFound)

\* Mutant of languageTiers: the passes in the order strictest first, so that
\* the loosest pass overrides.
languageTiersLoosestLast(entries, pref, chosen) ==
  languageTier(entries, pref, MatchType.OTHER_SUB_LANGUAGE_OKAY,
    languageTier(entries, pref, MatchType.BASE_LANGUAGE_OKAY,
      languageTier(entries, pref, MatchType.EXACT, chosen, FALSE),
      FALSE),
    FALSE)

\* The three passes, loosest first, so that the later ones override.
languageTiers(entries, pref, chosen) ==
  languageTier(entries, pref, MatchType.EXACT,
    languageTier(entries, pref, MatchType.BASE_LANGUAGE_OKAY,
      languageTier(entries, pref, MatchType.OTHER_SUB_LANGUAGE_OKAY,
                   chosen, FALSE),
      FALSE),
    FALSE)

\* opt_languageMatches[type] is set when any pass matches any entry.
languageMatches(entries, pref) ==
  /\ pref # <<>>
  /\ \E i \in 1..Len(entries) :
       match(MatchType.OTHER_SUB_LANGUAGE_OKAY, normalize(pref),
             normalize(entries[i].language))

\* Mutant of chooseByLanguage: the reduction to the first language is left
\* out.
chooseByLanguageNoReduction(entries, preferredLanguage) ==
  LET primary == SelectSeq(entries, LAMBDA e : e.primary)
      chosen1 == IF Len(primary) > 0 THEN primary ELSE entries
  IN IF preferredLanguage # <<>>
     THEN languageTiers(entries, preferredLanguage, chosen1)
     ELSE chosen1

\* The selection by primary flag and first language, then by preference:
\* the value of `chosen` when the role step begins.
chooseByLanguage(entries, preferredLanguage) ==
  LET primary == SelectSeq(entries, LAMBDA e : e.primary)
      chosen1 == IF Len(primary) > 0 THEN primary ELSE entries
      firstLanguage == IF Len(chosen1) > 0 THEN chosen1[1].language ELSE <<>>
      chosen2 == SelectSeq(chosen1, LAMBDA e : e.language = firstLanguage)
  IN IF preferredLanguage # <<>>
     THEN languageTiers(entries, preferredLanguage, chosen2)
     ELSE chosen2

variantRoles(variant) ==
  LET audioRoles == IF variant.audio # Null THEN variant.audio.roles ELSE <<>>
      videoRoles == IF variant.video # Null THEN variant.video.roles ELSE <<>>
  IN audioRoles \o videoRoles

\* Array.prototype.indexOf(x) >= 0
includes(array, x) == \E i \in 1..Len(array) : array[i] = x

\* Mutant of filterVariantsByRole_: the video roles are not looked at.
filterVariantsByAudioRole(variants, preferredRole) ==
  SelectSeq(variants, LAMBDA variant :
    variant.audio # Null /\ includes(variant.audio.roles, preferredRole))

filterVariantsByRole_(variants, preferredRole) ==
  SelectSeq(variants, LAMBDA variant :
    \/ variant.audio # Null /\ includes(variant.audio.roles, preferredRole)
    \/ variant.video # Null /\ includes(variant.video.roles, preferredRole))

filterTextStreamsByRole_(textStreams, preferredRole) ==
  SelectSeq(textStreams, LAMBDA stream : includes(stream.roles, preferredRole))

\* map(...).reduce(collapseArrays, []): the concatenation of the role arrays.
RECURSIVE allVariantRoles(_)
allVariantRoles(chosen) ==
  IF chosen = <<>> THEN <<>>
  ELSE variantRoles(Head(chosen)) \o allVariantRoles(Tail(chosen))

RECURSIVE allStreamRoles(_)
allStreamRoles(chosen) ==
  IF chosen = <<>> THEN <<>>
  ELSE Head(chosen).roles \o allStreamRoles(Tail(chosen))

\* Mutant of refineVariantsByRole: a preferred role that cannot be satisfied
\* returns the selection as it is.
refineVariantsByRoleOrKeep(chosen, preferredRole) ==
  LET roleMatches == filterVariantsByRole_(chosen, preferredRole)
      allRoles == allVariantRoles(chosen)
  IN IF preferredRole # "" /\ Len(roleMatches) > 0 THEN roleMatches
     ELSE IF preferredRole # "" \/ Len(allRoles) = 0 THEN chosen
     ELSE filterVariantsByRole_(chosen, allRoles[1])

\* The role step over a selection; "" is no preferred role.
refineVariantsByRole(chosen, preferredRole) ==
  LET roleMatches == filterVariantsByRole_(chosen, preferredRole)
      allRoles == allVariantRoles(chosen)
  IN IF preferredRole # "" /\ Len(roleMatches) > 0 THEN roleMatches
     ELSE IF Len(allRoles) = 0 THEN chosen
     ELSE filterVariantsByRole_(chosen, allRoles[1])

refineStreamsByRole(chosen, preferredRole) ==
  LET roleMatches == filterTextStreamsByRole_(chosen, preferredRole)
      allRoles == allStreamRoles(chosen)
  IN IF preferredRole # "" /\ Len(roleMatches) > 0 THEN roleMatches
     ELSE IF Len(allRoles) = 0 THEN chosen
     ELSE filterTextStreamsByRole_(chosen, allRoles[1])

\* The return value, with the selection the role step started from and the
\* opt_languageMatches flag.
\* Mutant of filterVariantsByLanguageAndRole: the selection is made among all
\* the variants.
filterVariantsOfAll(variants, preferredLanguage, preferredRole) ==
  LET playable == variants
      chosen == chooseByLanguage(playable, preferredLanguage)
  IN [kind |-> "selection",
      chosen |-> chosen,
      result |-> refineVariantsByRole(chosen, preferredRole),
      languageMatches |-> languageMatches(playable, preferredLanguage)]

filterVariantsByLanguageAndRole(variants, preferredLanguage, preferredRole) ==
  LET playable == getPlayableVariants(variants)
      chosen == chooseByLanguage(playable, preferredLanguage)
  IN [kind |-> "selection",
      chosen |-> chosen,
      result |-> refineVariantsByRole(chosen, preferredRole),
      languageMatches |-> languageMatches(playable, preferredLanguage)]

filterStreamsByLanguageAndRole(streams, preferredLanguage, preferredRole) ==
  LET chosen == chooseByLanguage(streams, preferredLanguage)
  IN [kind |-> "selection",
      chosen |-> chosen,
      result |-> refineStreamsByRole(chosen, preferredRole),
      languageMatches |-> languageMatches(streams, preferredLanguage)]

\* ------------------------------------------- specification of the selector

\* The languages, role arrays and preferences the selector is run on.
SelLanguages == {<<"en">>, <<"en", "US">>, <<"en", "GB">>, <<"fr">>}
PreferredLanguages == {<<>>, <<"en", "US">>, <<"en">>}
PreferredRoles == {"", "main", "alt"}
TextRoles == {<<>>, <<"main">>, <<"alt">>}

\* The streams of a variant: audio and video without roles, audio only,
\* both with different roles, video only.  A restricted variant is one that
\* applyRestrictions has disallowed.
VariantShapes == {"plain", "audioMain", "audioAltVideoMain", "videoAlt"}
VariantStates == {"restricted", "playable", "primary"}

audioOf(i, shape, language) ==
  CASE shape = "plain" ->
         MkStream(2 * i - 1, ContentType.AUDIO, language, <<>>, FALSE)
    [] shape = "audioMain" ->
         MkStream(2 * i - 1, ContentType.AUDIO, language, <<"main">>, FALSE)
    [] shape = "audioAltVideoMain" ->
         MkStream(2 * i - 1, ContentType.AUDIO, language, <<"alt">>, FALSE)
    [] OTHER -> Null

videoOf(i, shape) ==
  CASE shape = "plain" ->
         MkStream(2 * i, ContentType.VIDEO, <<"und">>, <<>>, FALSE)
    [] shape = "audioAltVideoMain" ->
         MkStream(2 * i, ContentType.VIDEO, <<"und">>, <<"main">>, FALSE)
    [] shape = "videoAlt" ->
         MkStream(2 * i, ContentType.VIDEO, <<"und">>, <<"alt">>, FALSE)
    [] OTHER -> Null

SelVariant(i, e) ==
  MkVariant(i, audioOf(i, e.shape, e.language), videoOf(i, e.shape),
            e.language, e.state = "primary",
            e.state # "restricted", TRUE)

SelVariantInputs ==
  [language : SelLanguages, shape : VariantShapes, state : VariantStates]

SelText(i, e) ==
  MkStream(100 + i, ContentType.TEXT, e.language, e.roles, e.primary)

SelTextInputs ==
  [language : SelLanguages, roles : TextRoles, primary : BOOLEAN]

InitSelect ==
  /\ call = NoCall
  /\ ret = NoRet
  /\ \/ \E n \in 0..MaxVariants : \E f \in [1..n -> SelVariantInputs] :
          period = [variants |-> [i \in 1..n |-> SelVariant(i, f[i])],
                    textStreams |-> <<>>]
     \/ \E n \in 1..MaxTextStreams : \E f \in [1..n -> SelTextInputs] :
          period = [variants |-> <<>>,
                    textStreams |-> [i \in 1..n |-> SelText(i, f[i])]]

FilterVariantsByLanguageAndRole ==
  \E preferredLanguage \in PreferredLanguages :
    \E preferredRole \in PreferredRoles :
      /\ call = NoCall
      /\ call' = [op |-> "filterVariantsByLanguageAndRole", n |-> 1,
                  preferredLanguage |-> preferredLanguage,
                  preferredRole |-> preferredRole]
      /\ ret' = filterVariantsByLanguageAndRole(
                  period.variants, preferredLanguage, preferredRole)
      /\ UNCHANGED period

FilterStreamsByLanguageAndRole ==
  \E preferredLanguage \in PreferredLanguages :
    \E preferredRole \in PreferredRoles :
      /\ call = NoCall
      /\ call' = [op |-> "filterStreamsByLanguageAndRole", n |-> 1,
                  preferredLanguage |-> preferredLanguage,
                  preferredRole |-> preferredRole]
      /\ ret' = filterStreamsByLanguageAndRole(
                  period.textStreams, preferredLanguage, preferredRole)
      /\ UNCHANGED period

\* Both functions are pure and leave the period as it is, so one call per
\* behaviour reaches every (input, result) pair.
NextSelect == FilterVariantsByLanguageAndRole \/ FilterStreamsByLanguageAndRole

SpecSelect == InitSelect /\ [][NextSelect]_vars

\* --------------------------------------------------- claims on the selector

IsSelectCall ==
  call.op \in {"filterVariantsByLanguageAndRole",
               "filterStreamsByLanguageAndRole"}

\* The entries the selection is made from: the playable variants, or the
\* text streams.
SelectInput ==
  IF call.op = "filterVariantsByLanguageAndRole"
  THEN SelectSeq(period.variants,
                 LAMBDA v : v.allowedByApplication /\ v.allowedByKeySystem)
  ELSE period.textStreams

\* The entries of the input that a tier matches, in input order.
TierMatches(matchType) ==
  SelectSeq(SelectInput,
            LAMBDA e : match(matchType, normalize(call.preferredLanguage),
                             normalize(e.language)))

\* The set of roles an entry exposes.
RolesOf(e) ==
  IF call.op = "filterVariantsByLanguageAndRole"
  THEN (IF e.audio # Null THEN Range(e.audio.roles) ELSE {})
         \cup (IF e.video # Null THEN Range(e.video.roles) ELSE {})
  ELSE Range(e.roles)

\* C1: with a preferred language, the selection before the role step is
\* exactly the exact matches, in input order, whenever there is one; without
\* an exact match it is the matches of the strictest tier that has any.
C1_LanguagePrecedence ==
  (IsSelectCall /\ call.preferredLanguage # <<>>) =>
    LET exact == TierMatches(MatchType.EXACT)
        base == TierMatches(MatchType.BASE_LANGUAGE_OKAY)
        other == TierMatches(MatchType.OTHER_SUB_LANGUAGE_OKAY)
    IN /\ exact # <<>> => ret.chosen = exact
       /\ (exact = <<>> /\ base # <<>>) => ret.chosen = base
       /\ (exact = <<>> /\ base = <<>> /\ other # <<>>) => ret.chosen = other

\* An exact match that follows a primary entry of another sub-language, and
\* alone is selected.
C1_Witness ==
  /\ IsSelectCall /\ call.preferredLanguage # <<>>
  /\ \E i, j \in 1..Len(SelectInput) :
       /\ i < j
       /\ SelectInput[i].primary
       /\ normalize(SelectInput[i].language)
            # normalize(call.preferredLanguage)
       /\ match(MatchType.OTHER_SUB_LANGUAGE_OKAY,
                normalize(call.preferredLanguage),
                normalize(SelectInput[i].language))
       /\ normalize(SelectInput[j].language)
            = normalize(call.preferredLanguage)
       /\ ret.chosen = <<SelectInput[j]>>

\* The preferred role of the call is one that no entry of the selection
\* exposes.
RoleUnsatisfied ==
  /\ IsSelectCall
  /\ call.preferredRole # ""
  /\ \A i \in 1..Len(ret.chosen) : call.preferredRole \notin RolesOf(ret.chosen[i])

\* C2 as claimed: an unsatisfiable preferred role returns the selection of
\* the language step unchanged, and not empty.
C2_Original ==
  (RoleUnsatisfied /\ ret.chosen # <<>>) =>
    (ret.result = ret.chosen /\ ret.result # <<>>)

\* C2 amended: an unsatisfiable preferred role returns what no preferred role
\* returns: the selection unchanged when none of its entries carries a role,
\* and otherwise its entries that expose the first role met in it; the result
\* is not empty when the selection is not.
C2_RoleFallback ==
  RoleUnsatisfied =>
    LET withRoles == {i \in 1..Len(ret.chosen) : RolesOf(ret.chosen[i]) # {}}
    IN /\ withRoles = {} => ret.result = ret.chosen
       /\ withRoles # {} =>
            LET k == CHOOSE i \in withRoles : \A j \in withRoles : i <= j
                first == IF call.op = "filterVariantsByLanguageAndRole"
                         THEN variantRoles(ret.chosen[k])[1]
                         ELSE ret.chosen[k].roles[1]
            IN ret.result =
                 SelectSeq(ret.chosen, LAMBDA e : first \in RolesOf(e))
       /\ ret.chosen # <<>> => ret.result # <<>>

\* An unsatisfiable preferred role whose fallback drops an entry of the
\* selection.
C2_Witness ==
  /\ RoleUnsatisfied
  /\ ret.result # <<>>
  /\ Len(ret.result) < Len(ret.chosen)

\* C3: when an entry of the selection carries a role, the entries returned
\* all expose one common role (and there is one).
C3_RoleHomogeneity ==
  (IsSelectCall /\ \E i \in 1..Len(ret.chosen) : RolesOf(ret.chosen[i]) # {})
    => /\ ret.result # <<>>
       /\ \E r \in UNION {RolesOf(ret.chosen[i]) : i \in 1..Len(ret.chosen)} :
            \A i \in 1..Len(ret.result) : r \in RolesOf(ret.result[i])

\* A selection of entries with no role in common, cut down to one role.
C3_Witness ==
  /\ IsSelectCall
  /\ \E i, j \in 1..Len(ret.chosen) :
       /\ RolesOf(ret.chosen[i]) # {}
       /\ RolesOf(ret.chosen[j]) # {}
       /\ RolesOf(ret.chosen[i]) \cap RolesOf(ret.chosen[j]) = {}
  /\ Len(ret.result) = 1

\* C4 as claimed: the entries returned all have the same language value.
C4_Original ==
  IsSelectCall =>
    \A i, j \in 1..Len(ret.result) :
      ret.result[i].language = ret.result[j].language

\* A tier of the preferred language matches some entry of the input.
PreferenceMatched ==
  /\ call.preferredLanguage # <<>>
  /\ TierMatches(MatchType.OTHER_SUB_LANGUAGE_OKAY) # <<>>

\* C4 amended: the entries returned all have the same base language (the
\* first subtag of the normalized language); they have the same language
\* value when no preferred language is given or none of the input matches it.
C4_OneLanguage ==
  IsSelectCall =>
    /\ \A i, j \in 1..Len(ret.result) :
         normalize(ret.result[i].language)[1]
           = normalize(ret.result[j].language)[1]
    /\ ~PreferenceMatched =>
         \A i, j \in 1..Len(ret.result) :
           ret.result[i].language = ret.result[j].language

\* Without a preferred language, an input of two languages of one base
\* language is cut down to the first entry's language.
C4_Witness ==
  /\ IsSelectCall
  /\ call.preferredLanguage = <<>>
  /\ Len(SelectInput) = 2
  /\ SelectInput[1].language # SelectInput[2].language
  /\ normalize(SelectInput[1].language)[1]
       = normalize(SelectInput[2].language)[1]
  /\ ~SelectInput[2].primary
  /\ ret.result = <<SelectInput[1]>>

\* ------------------------------------------------------- restriction filter

\* Mutant of meetsRestrictions: a value exactly on a lower bound is rejected.
meetsRestrictionsExclusive(variant, restrictions, maxHwRes) ==
  LET video == variant.video
  IN /\ video # Null =>
          ~ \/ video.width <= restrictions.minWidth
            \/ video.width > restrictions.maxWidth
            \/ video.width > maxHwRes.width
            \/ video.height <= restrictions.minHeight
            \/ video.height > restrictions.maxHeight
            \/ video.height > maxHwRes.height
            \/ video.width * video.height <= restrictions.minPixels
            \/ video.width * video.height > restrictions.maxPixels
     /\ ~ \/ variant.bandwidth <= restrictions.minBandwidth
          \/ variant.bandwidth > restrictions.maxBandwidth

meetsRestrictions(variant, restrictions, maxHwRes) ==
  LET video == variant.video
  IN IF /\ video # Null
        /\ \/ video.width < restrictions.minWidth
           \/ video.width > restrictions.maxWidth
           \/ video.width > maxHwRes.width
           \/ video.height < restrictions.minHeight
           \/ video.height > restrictions.maxHeight
           \/ video.height > maxHwRes.height
           \/ video.width * video.height < restrictions.minPixels
           \/ video.width * video.height > restrictions.maxPixels
     THEN FALSE
     ELSE IF \/ variant.bandwidth < restrictions.minBandwidth
             \/ variant.bandwidth > restrictions.maxBandwidth
     THEN FALSE
     ELSE TRUE

\* Mutant of restrictedVariants: a variant once disallowed stays disallowed.
restrictedVariantsSticky(variants, restrictions, maxHwRes) ==
  [i \in 1..Len(variants) |->
     [variants[i] EXCEPT !.allowedByApplication =
        /\ variants[i].allowedByApplication
        /\ meetsRestrictions(variants[i], restrictions, maxHwRes)]]

\* The variants after the forEach: each flag recomputed.
restrictedVariants(variants, restrictions, maxHwRes) ==
  [i \in 1..Len(variants) |->
     [variants[i] EXCEPT !.allowedByApplication =
        meetsRestrictions(variants[i], restrictions, maxHwRes)]]

\* Mutant of tracksChanged: true when some variant ends up disallowed.
tracksDisallowed(variants, restrictions, maxHwRes) ==
  \E i \in 1..Len(variants) :
    ~meetsRestrictions(variants[i], restrictions, maxHwRes)

\* tracksChanged: some variant's flag is not what it was.
tracksChanged(variants, restrictions, maxHwRes) ==
  \E i \in 1..Len(variants) :
    variants[i].allowedByApplication
      # meetsRestrictions(variants[i], restrictions, maxHwRes)

\* A variant of the given video size (no video when width is 0) and bandwidth.
SizedVariant(i, width, height, bandwidth, byApp, byKeySystem) ==
  [MkVariant(i,
     IF width = 0
       THEN MkStream(2 * i - 1, ContentType.AUDIO, <<"en">>, <<>>, FALSE)
       ELSE Null,
     IF width = 0 THEN Null
       ELSE [MkStream(2 * i, ContentType.VIDEO, <<"und">>, <<>>, FALSE)
               EXCEPT !.width = width, !.height = height],
     <<"en">>, FALSE, byApp, byKeySystem)
   EXCEPT !.bandwidth = bandwidth]

\* The restrictions with no bound set, as the caller's defaults give them.
Unrestricted ==
  [minWidth |-> 0, maxWidth |-> Infinity,
   minHeight |-> 0, maxHeight |-> Infinity,
   minPixels |-> 0, maxPixels |-> Infinity,
   minBandwidth |-> 0, maxBandwidth |-> Infinity]

\* Every combination of each bound absent or set inside the range of values.
AllRestrictions ==
  [minWidth : {0, MaxDim}, maxWidth : {1, Infinity},
   minHeight : {0, MaxDim}, maxHeight : {1, Infinity},
   minPixels : {0, MaxDim}, maxPixels : {MaxDim, Infinity},
   minBandwidth : {0, MaxBandwidth}, maxBandwidth : {1, Infinity}]

AllHwRes == [width : {1, Infinity}, height : {1, Infinity}]

\* ---------------------------------- specification of meetsRestrictions

InitMeets ==
  /\ call = NoCall
  /\ ret = NoRet
  /\ \E width \in 0..MaxDim, height \in 1..MaxDim, bandwidth \in 1..MaxBandwidth :
       /\ width = 0 => height = 1
       /\ period = [variants |->
                      <<SizedVariant(1, width, height, bandwidth, TRUE, TRUE)>>,
                    textStreams |-> <<>>]

MeetsRestrictions ==
  \E restrictions \in AllRestrictions, maxHwRes \in AllHwRes :
    /\ call = NoCall
    /\ call' = [op |-> "meetsRestrictions", n |-> 1,
                variant |-> period.variants[1],
                restrictions |-> restrictions, maxHwRes |-> maxHwRes]
    /\ ret' = [kind |-> "boolean",
               value |-> meetsRestrictions(period.variants[1], restrictions,
                                           maxHwRes)]
    /\ UNCHANGED period

\* The function is pure: one call per behaviour reaches every result.
NextMeets == MeetsRestrictions

SpecMeets == InitMeets /\ [][NextMeets]_vars

\* C6: meetsRestrictions returns false iff some bound is strictly violated:
\* one of the eight video bounds, user or hardware, for a variant with video,
\* or one of the two bandwidth bounds for any variant.
C6_MeetsRestrictions ==
  call.op = "meetsRestrictions" =>
    LET v == call.variant
        r == call.restrictions
        hw == call.maxHwRes
        hasVideo == v.video # Null
        w == IF hasVideo THEN v.video.width ELSE 0
        h == IF hasVideo THEN v.video.height ELSE 0
        violated ==
          {b \in {"minWidth", "minHeight", "minPixels", "minBandwidth",
                  "maxWidth", "maxHeight", "maxPixels", "maxBandwidth",
                  "hwWidth", "hwHeight"} :
             CASE b = "minWidth" -> hasVideo /\ r.minWidth - w > 0
               [] b = "maxWidth" -> hasVideo /\ w - r.maxWidth > 0
               [] b = "hwWidth" -> hasVideo /\ w - hw.width > 0
               [] b = "minHeight" -> hasVideo /\ r.minHeight - h > 0
               [] b = "maxHeight" -> hasVideo /\ h - r.maxHeight > 0
               [] b = "hwHeight" -> hasVideo /\ h - hw.height > 0
               [] b = "minPixels" -> hasVideo /\ r.minPixels - w * h > 0
               [] b = "maxPixels" -> hasVideo /\ w * h - r.maxPixels > 0
               [] b = "minBandwidth" -> r.minBandwidth - v.bandwidth > 0
               [] b = "maxBandwidth" -> v.bandwidth - r.maxBandwidth > 0}
    IN ret.value = (violated = {})

\* A variant exactly on minWidth and on maxPixels passes.
C6_Witness ==
  /\ call.op = "meetsRestrictions"
  /\ call.variant.video # Null
  /\ call.variant.video.width = call.restrictions.minWidth
  /\ call.variant.video.width * call.variant.video.height
       = call.restrictions.maxPixels
  /\ ret.value = TRUE

\* ---------------------------------- specification of applyRestrictions

\* The variants a period is built from: audio only or with video, small or
\* large, supported by the key system or not.
RestrictShapes ==
  {[width |-> 0, height |-> 1, bandwidth |-> 1, byKeySystem |-> TRUE],
   [width |-> 0, height |-> 1, bandwidth |-> MaxBandwidth,
    byKeySystem |-> FALSE],
   [width |-> 1, height |-> 1, bandwidth |-> 1, byKeySystem |-> TRUE],
   [width |-> MaxDim, height |-> 1, bandwidth |-> 1, byKeySystem |-> TRUE],
   [width |-> 1, height |-> MaxDim, bandwidth |-> MaxBandwidth,
    byKeySystem |-> FALSE],
   [width |-> MaxDim, height |-> MaxDim, bandwidth |-> MaxBandwidth,
    byKeySystem |-> TRUE]}

\* The restrictions of a call: none, or one bound set.
SomeRestrictions ==
  {Unrestricted,
   [Unrestricted EXCEPT !.minWidth = MaxDim],
   [Unrestricted EXCEPT !.maxWidth = 1],
   [Unrestricted EXCEPT !.minHeight = MaxDim],
   [Unrestricted EXCEPT !.maxHeight = 1],
   [Unrestricted EXCEPT !.minPixels = MaxDim],
   [Unrestricted EXCEPT !.maxPixels = MaxDim],
   [Unrestricted EXCEPT !.minBandwidth = MaxBandwidth],
   [Unrestricted EXCEPT !.maxBandwidth = 1]}

SomeHwRes ==
  {[width |-> Infinity, height |-> Infinity],
   [width |-> 1, height |-> Infinity],
   [width |-> Infinity, height |-> 1]}

\* A period as manifest construction leaves it: every variant allowed by the
\* application.
InitRestrict ==
  /\ call = NoCall
  /\ ret = NoRet
  /\ \E n \in 0..MaxVariants : \E f \in [1..n -> RestrictShapes] :
       period =
         [variants |->
            [i \in 1..n |->
               SizedVariant(i, f[i].width, f[i].height, f[i].bandwidth,
                            TRUE, f[i].byKeySystem)],
          textStreams |->
            <<MkStream(101, ContentType.TEXT, <<"en">>, <<>>, FALSE)>>]

ApplyRestrictions ==
  \E restrictions \in SomeRestrictions, maxHwRes \in SomeHwRes :
    /\ call.n < MaxCalls
    /\ call' = [op |-> "applyRestrictions", n |-> call.n + 1,
                restrictions |-> restrictions, maxHwRes |-> maxHwRes]
    /\ period' = [period EXCEPT !.variants =
                    restrictedVariants(period.variants, restrictions,
                                       maxHwRes)]
    /\ ret' = [kind |-> "boolean",
               value |-> tracksChanged(period.variants, restrictions,
                                       maxHwRes)]

NextRestrict == ApplyRestrictions

SpecRestrict == InitRestrict /\ [][NextRestrict]_vars

\* A bound of the restrictions or of the hardware that the variant violates.
ViolatesBound(v, r, hw) ==
  \/ /\ v.video # Null
     /\ \/ v.video.width \notin r.minWidth..r.maxWidth
        \/ v.video.height \notin r.minHeight..r.maxHeight
        \/ v.video.width \notin 0..hw.width
        \/ v.video.height \notin 0..hw.height
        \/ v.video.width * v.video.height \notin r.minPixels..r.maxPixels
  \/ v.bandwidth \notin r.minBandwidth..r.maxBandwidth

\* C7: a call of applyRestrictions sets every variant's allowedByApplication
\* to what the call's own arguments allow, returns true iff some flag differs
\* from its value before the call, and changes nothing else of the period.
C7_ApplyRestrictions ==
  [][call'.op = "applyRestrictions" =>
       /\ Len(period'.variants) = Len(period.variants)
       /\ \A i \in 1..Len(period.variants) :
            /\ period'.variants[i].allowedByApplication
                 = ~ViolatesBound(period.variants[i], call'.restrictions,
                                  call'.maxHwRes)
            /\ [period'.variants[i] EXCEPT !.allowedByApplication = TRUE]
                 = [period.variants[i] EXCEPT !.allowedByApplication = TRUE]
       /\ period'.textStreams = period.textStreams
       /\ ret'.value =
            (\E i \in 1..Len(period.variants) :
               period'.variants[i].allowedByApplication
                 # period.variants[i].allowedByApplication)]_vars

\* A call that allows again a variant an earlier call disallowed, while it
\* disallows another, on a period with a variant the key system rejects.
C7_Witness ==
  /\ call.op = "applyRestrictions"
  /\ ret.value = TRUE
  /\ call.restrictions = Unrestricted
  /\ call.maxHwRes.width = 1
  /\ Len(period.variants) = 2
  /\ ~period.variants[1].allowedByApplication
  /\ period.variants[2].allowedByApplication
  /\ ~period.variants[2].allowedByKeySystem

\* C8: a call of applyRestrictions that repeats the arguments of the call
\* before it returns false and leaves every flag as it is.
C8_Idempotent ==
  [][(/\ call.op = "applyRestrictions"
      /\ call'.op = "applyRestrictions"
      /\ call'.restrictions = call.restrictions
      /\ call'.maxHwRes = call.maxHwRes) =>
       (ret'.value = FALSE /\ period' = period)]_vars

\* A call that changed a flag, followed by the same call made again.
C8_Witness ==
  /\ call.op = "applyRestrictions"
  /\ call.n = 2
  /\ call.restrictions.maxWidth = 1
  /\ ret.value = FALSE
  /\ \E i \in 1..Len(period.variants) :
       ~period.variants[i].allowedByApplication

\* ----------------------------------------------------- compatibility filter

\* goog.asserts.assert(condition, message): fails fatally when the condition
\* is false.
assertionFails(condition) == ~condition

AssertionFailure == [kind |-> "assertionFailure"]
Undefined == [kind |-> "undefined"]

\* MimeUtils.getFullType(mimeType, codecs): the MIME type with its codecs.
getFullType(mimeType, codecs) == <<mimeType, codecs>>

isAudio(stream) == stream.type = ContentType.AUDIO

isVideo(stream) == stream.type = ContentType.VIDEO

\* The capability queries.  A DrmEngine is Null or a record of its answers:
\* initialized, the ids of the variants that isSupportedByKeySystem rejects,
\* and getSupportedTypes.  A platform is the set of full types that
\* MediaSourceEngine.isStreamSupported accepts and the set that
\* TextEngine.isTypeSupported accepts.
drmInitialized(drmEngine) == drmEngine # Null /\ drmEngine.initialized

\* Mutant of isStreamCompatible_: the active stream's codecs are compared in
\* full, profile included.
isStreamCompatibleFullCodecs(stream, drmEngine, activeStream, platform) ==
  IF stream = Null THEN TRUE
  ELSE LET fullMimeType == getFullType(stream.mimeType, stream.codecs)
       IN IF fullMimeType \notin platform.mediaSource THEN FALSE
          ELSE IF /\ drmInitialized(drmEngine)
                  /\ stream.encrypted
                  /\ fullMimeType \notin drmEngine.supportedTypes
          THEN FALSE
          ELSE IF /\ activeStream # Null
                  /\ \/ stream.mimeType # activeStream.mimeType
                     \/ stream.codecs # activeStream.codecs
          THEN FALSE
          ELSE TRUE

isStreamCompatible_(stream, drmEngine, activeStream, platform) ==
  IF stream = Null THEN TRUE
  ELSE LET fullMimeType == getFullType(stream.mimeType, stream.codecs)
       IN IF fullMimeType \notin platform.mediaSource THEN FALSE
          ELSE IF /\ drmInitialized(drmEngine)
                  /\ stream.encrypted
                  /\ fullMimeType \notin drmEngine.supportedTypes
          THEN FALSE
          ELSE IF /\ activeStream # Null
                  /\ \/ stream.mimeType # activeStream.mimeType
                     \/ stream.codecs[1] # activeStream.codecs[1]
          THEN FALSE
          ELSE TRUE

isVariantCompatible_(variant, drmEngine, activeAudio, activeVideo, platform) ==
  IF drmInitialized(drmEngine) /\ variant.id \in drmEngine.rejected
  THEN FALSE
  ELSE /\ isStreamCompatible_(variant.audio, drmEngine, activeAudio, platform)
       /\ isStreamCompatible_(variant.video, drmEngine, activeVideo, platform)

\* The period after the two filters.
filteredPeriod(drmEngine, activeAudio, activeVideo, p, platform) ==
  [variants |->
     SelectSeq(p.variants, LAMBDA variant :
       isVariantCompatible_(variant, drmEngine, activeAudio, activeVideo,
                            platform)),
   textStreams |->
     SelectSeq(p.textStreams, LAMBDA stream :
       getFullType(stream.mimeType, stream.codecs) \in platform.textEngine)]

\* Mutant of filterNewPeriod: the type of activeVideo is not asserted.
filterNewPeriodAudioAssertOnly(drmEngine, activeAudio, activeVideo, p, platform) ==
  IF activeAudio # Null /\ assertionFails(isAudio(activeAudio))
  THEN [period |-> p, ret |-> AssertionFailure]
  ELSE [period |-> filteredPeriod(drmEngine, activeAudio, activeVideo, p,
                                  platform),
        ret |-> Undefined]

\* The period and the outcome of filterNewPeriod: the assertions come first,
\* and a failed one leaves the period as it is.
filterNewPeriod(drmEngine, activeAudio, activeVideo, p, platform) ==
  IF activeAudio # Null /\ assertionFails(isAudio(activeAudio))
  THEN [period |-> p, ret |-> AssertionFailure]
  ELSE IF activeVideo # Null /\ assertionFails(isVideo(activeVideo))
  THEN [period |-> p, ret |-> AssertionFailure]
  ELSE [period |-> filteredPeriod(drmEngine, activeAudio, activeVideo, p,
                                  platform),
        ret |-> Undefined]

\* Array index of the first variant of the two streams, 0 when there is none.
firstVariantOf(audio, video, variants) ==
  LET found == {i \in 1..Len(variants) :
                  variants[i].audio = audio /\ variants[i].video = video}
  IN IF found = {} THEN 0
     ELSE CHOOSE i \in found : \A j \in found : i <= j

getVariantByStreams(audio, video, variants) ==
  IF audio # Null /\ assertionFails(isAudio(audio))
  THEN AssertionFailure
  ELSE IF video # Null /\ assertionFails(isVideo(video))
  THEN AssertionFailure
  ELSE LET i == firstVariantOf(audio, video, variants)
       IN IF i = 0 THEN [kind |-> "null"]
          ELSE [kind |-> "variant", value |-> variants[i]]

\* ------------------------------------ specification of the compatible filter

\* A stream of a container and codecs.
FormatStream(id, type, mimeType, codecs, encrypted) ==
  [MkStream(id, type, <<"en">>, <<>>, FALSE)
     EXCEPT !.mimeType = mimeType, !.codecs = codecs, !.encrypted = encrypted]

\* The audio and video formats: a codec family in two profiles, another
\* family in the same container, and that family in another container.
Mp4a == [mimeType |-> "audio/mp4", codecs |-> <<"mp4a", "40", "2">>]
Ec3 == [mimeType |-> "audio/mp4", codecs |-> <<"ec-3">>]
Avc4d == [mimeType |-> "video/mp4", codecs |-> <<"avc1", "4d">>]
Avc64 == [mimeType |-> "video/mp4", codecs |-> <<"avc1", "64">>]
Vp9Mp4 == [mimeType |-> "video/mp4", codecs |-> <<"vp09">>]
Vp9WebM == [mimeType |-> "video/webm", codecs |-> <<"vp09">>]
Vtt == [mimeType |-> "text/vtt", codecs |-> <<>>]
Ttml == [mimeType |-> "application/ttml+xml", codecs |-> <<>>]

FullType(format) == getFullType(format.mimeType, format.codecs)

AvTypes == {FullType(f) : f \in {Mp4a, Ec3, Avc4d, Avc64, Vp9Mp4, Vp9WebM}}
TextTypes == {FullType(Vtt), FullType(Ttml)}

AudioStream(id, format, encrypted) ==
  FormatStream(id, ContentType.AUDIO, format.mimeType, format.codecs, encrypted)

VideoStream(id, format, encrypted) ==
  FormatStream(id, ContentType.VIDEO, format.mimeType, format.codecs, encrypted)

CompatShapes == {"clear", "encrypted", "otherCodec", "videoOnly", "audioOnly"}

CompatVariant(i, shape) ==
  CASE shape = "clear" ->
         MkVariant(i, AudioStream(2 * i - 1, Mp4a, FALSE),
                   VideoStream(2 * i, Avc4d, FALSE), <<"en">>, FALSE, TRUE, TRUE)
    [] shape = "encrypted" ->
         MkVariant(i, AudioStream(2 * i - 1, Mp4a, TRUE),
                   VideoStream(2 * i, Avc64, TRUE), <<"en">>, FALSE, TRUE, TRUE)
    [] shape = "otherCodec" ->
         MkVariant(i, AudioStream(2 * i - 1, Ec3, FALSE),
                   VideoStream(2 * i, Vp9Mp4, FALSE), <<"en">>, FALSE, TRUE, TRUE)
    [] shape = "videoOnly" ->
         MkVariant(i, Null, VideoStream(2 * i, Vp9WebM, TRUE),
                   <<"en">>, FALSE, TRUE, TRUE)
    [] OTHER ->
         MkVariant(i, AudioStream(2 * i - 1, Ec3, TRUE), Null,
                   <<"en">>, FALSE, TRUE, TRUE)

\* The text streams of a period: WebVTT and TTML in turn.
CompatText(i) ==
  LET format == IF i % 2 = 1 THEN Vtt ELSE Ttml
  IN FormatStream(100 + i, ContentType.TEXT, format.mimeType, format.codecs,
                  FALSE)

\* The active streams of a call: none, a stream of the period before, or a
\* stream of the wrong type.
ActiveAudios ==
  {Null, AudioStream(91, Mp4a, FALSE), VideoStream(92, Avc4d, FALSE)}
ActiveVideos ==
  {Null, VideoStream(93, Avc4d, FALSE), VideoStream(94, Vp9Mp4, FALSE),
   AudioStream(95, Mp4a, FALSE)}

\* The DRM engines of a call: none, one not initialized (whose answers must
\* not count), and initialized ones.
DrmEngines ==
  {Null,
   [type |-> "DrmEngine", initialized |-> FALSE, rejected |-> {1},
    supportedTypes |-> {}]}
  \cup [type : {"DrmEngine"}, initialized : {TRUE},
        rejected : {{}, {1}, {2}},
        supportedTypes : {AvTypes, AvTypes \ {FullType(Avc64)},
                          AvTypes \ {FullType(Mp4a)}, {}}]

Platforms ==
  [mediaSource : {AvTypes, AvTypes \ {FullType(Avc4d)},
                  AvTypes \ {FullType(Vp9WebM)}, AvTypes \ {FullType(Ec3)}},
   textEngine : {TextTypes, {FullType(Vtt)}, {}}]

InitCompat ==
  /\ call = NoCall
  /\ ret = NoRet
  /\ \E n \in 0..MaxVariants : \E f \in [1..n -> CompatShapes] :
       period = [variants |-> [i \in 1..n |-> CompatVariant(i, f[i])],
                 textStreams |-> [i \in 1..MaxTextStreams |-> CompatText(i)]]

\* A new period is filtered once.
FilterNewPeriod ==
  \E drmEngine \in DrmEngines, platform \in Platforms :
    \E activeAudio \in ActiveAudios, activeVideo \in ActiveVideos :
      LET out == filterNewPeriod(drmEngine, activeAudio, activeVideo, period,
                                 platform)
      IN /\ call = NoCall
         /\ call' = [op |-> "filterNewPeriod", n |-> 1,
                     drmEngine |-> drmEngine, platform |-> platform,
                     audio |-> activeAudio, video |-> activeVideo]
         /\ period' = out.period
         /\ ret' = out.ret

\* The streams looked up: none, a stream of some variant of the period, or a
\* stream of the wrong type.
GetVariantByStreams ==
  \E audio \in {Null, VideoStream(92, Avc4d, FALSE)}
                 \cup {period.variants[i].audio : i \in 1..Len(period.variants)} :
    \E video \in {Null, AudioStream(95, Mp4a, FALSE)}
                   \cup {period.variants[i].video : i \in 1..Len(period.variants)} :
      /\ call = NoCall
      /\ call' = [op |-> "getVariantByStreams", n |-> 1,
                  audio |-> audio, video |-> video]
      /\ ret' = getVariantByStreams(audio, video, period.variants)
      /\ UNCHANGED period

NextCompat == FilterNewPeriod \/ GetVariantByStreams

SpecCompat == InitCompat /\ [][NextCompat]_vars

\* The DRM context of the call is initialized.
DrmActive(c) == c.drmEngine # Null /\ c.drmEngine.initialized

\* A stream of a variant is compatible: decodable, its type supported by the
\* initialized DRM context if it is encrypted, and of the container and the
\* codec family of the active stream of its kind, if there is one.
StreamCompatible(stream, active, c) ==
  LET full == <<stream.mimeType, stream.codecs>>
  IN /\ full \in c.platform.mediaSource
     /\ (DrmActive(c) /\ stream.encrypted) => full \in c.drmEngine.supportedTypes
     /\ active # Null =>
          /\ stream.mimeType = active.mimeType
          /\ Head(stream.codecs) = Head(active.codecs)

VariantSurvives(variant, c) ==
  /\ DrmActive(c) => variant.id \notin c.drmEngine.rejected
  /\ variant.audio # Null => StreamCompatible(variant.audio, c.audio, c)
  /\ variant.video # Null => StreamCompatible(variant.video, c.video, c)

\* C5: filterNewPeriod keeps exactly the variants that the key system
\* supports (when a DRM context is initialized) and whose streams are each
\* compatible, and exactly the text streams whose full type the text
\* capability supports, both in their order.
C5_FilterNewPeriod ==
  [][(call'.op = "filterNewPeriod" /\ ret' # AssertionFailure) =>
       /\ period'.variants =
            SelectSeq(period.variants, LAMBDA v : VariantSurvives(v, call'))
       /\ period'.textStreams =
            SelectSeq(period.textStreams, LAMBDA t :
              <<t.mimeType, t.codecs>> \in call'.platform.textEngine)]_vars

\* With the active video of one profile, a variant of another profile of the
\* same codec is kept, and a variant of another codec in the same container
\* is dropped, though decodable and supported by the key system; TTML is
\* dropped.
C5_Witness ==
  /\ call.op = "filterNewPeriod"
  /\ call.video = VideoStream(93, Avc4d, FALSE)
  /\ call.audio = Null
  /\ DrmActive(call)
  /\ call.drmEngine.rejected = {}
  /\ call.drmEngine.supportedTypes = AvTypes
  /\ call.platform.mediaSource = AvTypes
  /\ Len(period.variants) = 1
  /\ period.variants[1].id = 2
  /\ period.variants[1].video.codecs = Avc64.codecs
  /\ Len(period.textStreams) = 1

\* The stream arguments of the call break the type precondition.
WrongStreamType(c) ==
  \/ c.audio # Null /\ c.audio.type # "audio"
  \/ c.video # Null /\ c.video.type # "video"

\* C10: filterNewPeriod and getVariantByStreams end in an assertion failure
\* exactly when an audio argument that is not null is not of type audio or a
\* video argument that is not null is not of type video, and the failure
\* leaves the period as it was.
C10_TypePrecondition ==
  [][call'.op \in {"filterNewPeriod", "getVariantByStreams"} =>
       /\ (ret' = AssertionFailure) <=> WrongStreamType(call')
       /\ WrongStreamType(call') => period' = period]_vars

\* filterNewPeriod fails on an active video of type audio, over a period
\* with a variant that the call would have dropped.
C10_Witness ==
  /\ call.op = "filterNewPeriod"
  /\ ret = AssertionFailure
  /\ call.audio = Null
  /\ call.video # Null /\ call.video.type = "audio"
  /\ \E i \in 1..Len(period.variants) : ~VariantSurvives(period.variants[i], call)

\* ------------------------------------------------------------ lookup helpers

\* A stream id argument (?number) is Null or a number.
Number(k) == [type |-> "number", value |-> k]

TypeError == [kind |-> "TypeError"]

\* matchesId(id, stream): "true", "false", or "TypeError" when stream.id is
\* read from a null stream.
matchesId(id, stream) ==
  IF id = Null THEN (IF stream = Null THEN "true" ELSE "false")
  ELSE IF stream = Null THEN "TypeError"
  ELSE IF stream.id = id.value THEN "true" ELSE "false"

\* The loop over the variants; && does not evaluate its right side when the
\* left side is false.
RECURSIVE getVariantByStreamIds(_, _, _)
getVariantByStreamIds(audioId, videoId, variants) ==
  IF variants = <<>> THEN [kind |-> "null"]
  ELSE LET variant == Head(variants)
           audioMatches == matchesId(audioId, variant.audio)
           videoMatches == matchesId(videoId, variant.video)
       IN IF audioMatches = "TypeError" THEN TypeError
          ELSE IF audioMatches = "false"
          THEN getVariantByStreamIds(audioId, videoId, Tail(variants))
          ELSE IF videoMatches = "TypeError" THEN TypeError
          ELSE IF videoMatches = "false"
          THEN getVariantByStreamIds(audioId, videoId, Tail(variants))
          ELSE [kind |-> "variant", value |-> variant]

\* -------------------------------------- specification of the lookup helpers

\* The variants of a period pair one of two audio streams, or none, with one
\* of two video streams, or none; a variant has at least one stream.
LookupShapes ==
  {sh \in [audio : 0..2, video : 0..2] : sh.audio # 0 \/ sh.video # 0}

LookupVariant(i, sh) ==
  MkVariant(i,
    IF sh.audio = 0 THEN Null
      ELSE MkStream(sh.audio, ContentType.AUDIO, <<"en">>, <<>>, FALSE),
    IF sh.video = 0 THEN Null
      ELSE MkStream(10 + sh.video, ContentType.VIDEO, <<"und">>, <<>>, FALSE),
    <<"en">>, FALSE, TRUE, TRUE)

\* The ids looked up: null, the id of a stream, or an id of no stream.
AudioIds == {Null} \cup {Number(k) : k \in 1..3}
VideoIds == {Null} \cup {Number(10 + k) : k \in 1..3}

InitLookup ==
  /\ call = NoCall
  /\ ret = NoRet
  /\ \E n \in 0..MaxVariants : \E f \in [1..n -> LookupShapes] :
       period = [variants |-> [i \in 1..n |-> LookupVariant(i, f[i])],
                 textStreams |-> <<>>]

GetVariantByStreamIds ==
  \E audioId \in AudioIds, videoId \in VideoIds :
    /\ call = NoCall
    /\ call' = [op |-> "getVariantByStreamIds", n |-> 1,
                audioId |-> audioId, videoId |-> videoId]
    /\ ret' = getVariantByStreamIds(audioId, videoId, period.variants)
    /\ UNCHANGED period

\* The lookups are pure: one call per behaviour reaches every result.
NextLookup == GetVariantByStreamIds

SpecLookup == InitLookup /\ [][NextLookup]_vars

\* A variant has the stream of the id, or no stream when the id is null.
HasStreamOfId(id, stream) ==
  IF id = Null THEN stream = Null
  ELSE stream # Null /\ stream.id = id.value

\* C9: getVariantByStreamIds raises no error; it returns the first variant
\* whose audio and video match the ids, and null when there is none.
C9_LookupTotal ==
  call.op = "getVariantByStreamIds" =>
    LET found == {i \in 1..Len(period.variants) :
                    /\ HasStreamOfId(call.audioId, period.variants[i].audio)
                    /\ HasStreamOfId(call.videoId, period.variants[i].video)}
    IN /\ ret # TypeError
       /\ found = {} => ret = [kind |-> "null"]
       /\ found # {} =>
            ret = [kind |-> "variant",
                   value |-> period.variants[
                     CHOOSE i \in found : \A j \in found : i <= j]]

\* ------------------------------------------------- findPeriodContainingTime

\* ManifestParserUtils.GAP_OVERLAP_TOLERANCE_SECONDS, in the unit of time of
\* the model (half the tolerance).
GAP_OVERLAP_TOLERANCE_SECONDS == 2

\* Mutant of periodScan: the time is compared without the tolerance.
RECURSIVE periodScanExact(_, _, _)
periodScanExact(periods, time, i) ==
  IF i > 0
  THEN IF time >= periods[i + 1].startTime THEN i
       ELSE periodScanExact(periods, time, i - 1)
  ELSE 0

\* The loop from index i down to 1; indices are those of the code, from 0,
\* so that periods[i + 1] is manifest.periods[i].
RECURSIVE periodScan(_, _, _)
periodScan(periods, time, i) ==
  LET threshold == GAP_OVERLAP_TOLERANCE_SECONDS
  IN IF i > 0
     THEN IF time + threshold >= periods[i + 1].startTime THEN i
          ELSE periodScan(periods, time, i - 1)
     ELSE 0

findPeriodContainingTime(manifest, time) ==
  periodScan(manifest.periods, time, Len(manifest.periods) - 1)

\* A manifest of periods of the given start times.
ManifestOf(startTimes) ==
  [periods |-> [i \in 1..Len(startTimes) |->
                  [startTime |-> startTimes[i], variants |-> <<>>,
                   textStreams |-> <<>>]],
   minBufferTime |-> 0]

InitPeriods ==
  /\ call = NoCall
  /\ ret = NoRet
  /\ period = [variants |-> <<>>, textStreams |-> <<>>]

FindPeriodContainingTime ==
  /\ call = NoCall
  /\ \E n \in 0..MaxPeriods : \E startTimes \in [1..n -> 0..MaxTime] :
       \E time \in 0..MaxTime :
         /\ call' = [op |-> "findPeriodContainingTime", n |-> 1,
                     manifest |-> ManifestOf(startTimes), time |-> time]
         /\ ret' = [kind |-> "number",
                    value |-> findPeriodContainingTime(
                                ManifestOf(startTimes), time)]
  /\ UNCHANGED period

\* The function is pure: one call per behaviour reaches every result.
NextPeriods == FindPeriodContainingTime

SpecPeriods == InitPeriods /\ [][NextPeriods]_vars

\* C11: findPeriodContainingTime returns the highest index from 1 on whose
\* period starts no later than the time plus the tolerance, and 0 when there
\* is no such index.
C11_PeriodContainingTime ==
  call.op = "findPeriodContainingTime" =>
    LET periods == call.manifest.periods
        reached == {i \in 1..(Len(periods) - 1) :
                      periods[i + 1].startTime
                        <= call.time + GAP_OVERLAP_TOLERANCE_SECONDS}
    IN /\ reached = {} => ret.value = 0
       /\ reached # {} =>
            /\ ret.value \in reached
            /\ \A i \in reached : i <= ret.value

\* Three periods in order, and a time before the start of the second by
\* less than the tolerance: the index is 1.
C11_Witness ==
  /\ call.op = "findPeriodContainingTime"
  /\ Len(call.manifest.periods) = 3
  /\ call.manifest.periods[1].startTime = 0
  /\ call.time < call.manifest.periods[2].startTime
  /\ call.time + GAP_OVERLAP_TOLERANCE_SECONDS
       > call.manifest.periods[2].startTime
  /\ call.time + GAP_OVERLAP_TOLERANCE_SECONDS
       < call.manifest.periods[3].startTime
  /\ ret.value = 1

\* ------------------------------------------- playability and variant tracks

\* The fields of a shakaExtern.Track that identify the variant and its
\* streams; the remaining fields are copies of stream fields that no
\* operation of this module reads back.  A stream id is kept as ?number.
variantToTrack(variant) ==
  LET audio == variant.audio
      video == variant.video
  IN [id |-> variant.id,
      active |-> FALSE,
      type |-> "variant",
      bandwidth |-> variant.bandwidth,
      language |-> variant.language,
      primary |-> variant.primary,
      videoId |-> IF video # Null THEN Number(video.id) ELSE Null,
      audioId |-> IF audio # Null THEN Number(audio.id) ELSE Null]

\* activeId == stream.id, where activeId is ?number.
looseEquals(activeId, id) == activeId # Null /\ activeId.value = id

\* Mutant of trackOfVariant: a variant of two streams is active as soon as
\* one of them is.
trackOfVariantEither(variant, activeAudioId, activeVideoId) ==
  LET track == variantToTrack(variant)
  IN IF variant.video # Null /\ variant.audio # Null
     THEN [track EXCEPT !.active =
             looseEquals(activeVideoId, variant.video.id)
               \/ looseEquals(activeAudioId, variant.audio.id)]
     ELSE IF variant.video # Null
     THEN [track EXCEPT !.active =
             looseEquals(activeVideoId, variant.video.id)]
     ELSE IF variant.audio # Null
     THEN [track EXCEPT !.active =
             looseEquals(activeAudioId, variant.audio.id)]
     ELSE track

\* The callback of variants.map in getVariantTracks.
trackOfVariant(variant, activeAudioId, activeVideoId) ==
  LET track == variantToTrack(variant)
  IN IF variant.video # Null /\ variant.audio # Null
     THEN [track EXCEPT !.active =
             looseEquals(activeVideoId, variant.video.id)
               /\ looseEquals(activeAudioId, variant.audio.id)]
     ELSE IF variant.video # Null
     THEN [track EXCEPT !.active =
             looseEquals(activeVideoId, variant.video.id)]
     ELSE IF variant.audio # Null
     THEN [track EXCEPT !.active =
             looseEquals(activeAudioId, variant.audio.id)]
     ELSE track

getVariantTracks(p, activeAudioId, activeVideoId) ==
  LET variants == getPlayableVariants(p.variants)
  IN [i \in 1..Len(variants) |->
        trackOfVariant(variants[i], activeAudioId, activeVideoId)]

\* A variant of the streams of a shape, with its two permissions.
TrackVariantInputs ==
  [shape : LookupShapes, byApp : BOOLEAN, byKeySystem : BOOLEAN]

TrackVariant(i, e) ==
  [LookupVariant(i, e.shape) EXCEPT !.allowedByApplication = e.byApp,
                                    !.allowedByKeySystem = e.byKeySystem]

InitTracks ==
  /\ call = NoCall
  /\ ret = NoRet
  /\ \E n \in 0..MaxVariants : \E f \in [1..n -> TrackVariantInputs] :
       period = [variants |-> [i \in 1..n |-> TrackVariant(i, f[i])],
                 textStreams |-> <<>>]

IsPlayable ==
  \E i \in 1..Len(period.variants) :
    /\ call = NoCall
    /\ call' = [op |-> "isPlayable", n |-> 1, variant |-> period.variants[i]]
    /\ ret' = [kind |-> "boolean", value |-> isPlayable(period.variants[i])]
    /\ UNCHANGED period

GetPlayableVariants ==
  /\ call = NoCall
  /\ call' = [op |-> "getPlayableVariants", n |-> 1]
  /\ ret' = [kind |-> "variants",
             value |-> getPlayableVariants(period.variants)]
  /\ UNCHANGED period

GetVariantTracks ==
  \E activeAudioId \in AudioIds : \E activeVideoId \in VideoIds :
    /\ call = NoCall
    /\ call' = [op |-> "getVariantTracks", n |-> 1,
                activeAudioId |-> activeAudioId,
                activeVideoId |-> activeVideoId]
    /\ ret' = [kind |-> "tracks",
               value |-> getVariantTracks(period, activeAudioId,
                                          activeVideoId)]
    /\ UNCHANGED period

\* The three functions are pure: one call per behaviour reaches every result.
NextTracks == IsPlayable \/ GetPlayableVariants \/ GetVariantTracks

SpecTracks == InitTracks /\ [][NextTracks]_vars

\* The indices of the variants of the period with both permissions, and the
\* k-th of them in the order of the period.
AllowedIndices ==
  {i \in 1..Len(period.variants) :
     /\ period.variants[i].allowedByApplication = TRUE
     /\ period.variants[i].allowedByKeySystem = TRUE}

AllowedIndex(k) ==
  CHOOSE i \in AllowedIndices :
    Cardinality({j \in AllowedIndices : j <= i}) = k

\* C12: getPlayableVariants returns exactly the variants with both
\* permissions, in their order in the input; isPlayable is true exactly for
\* a variant with both permissions.
C12_PlayableVariants ==
  /\ call.op = "getPlayableVariants" =>
       /\ Len(ret.value) = Cardinality(AllowedIndices)
       /\ \A k \in 1..Len(ret.value) :
            ret.value[k] = period.variants[AllowedIndex(k)]
  /\ call.op = "isPlayable" =>
       (ret.value <=> (/\ call.variant.allowedByApplication = TRUE
                       /\ call.variant.allowedByKeySystem = TRUE))

\* A variant that lacks only the key system's permission is dropped and the
\* playable variant after it is returned.
C12_Witness ==
  /\ call.op = "getPlayableVariants"
  /\ Len(period.variants) = 2
  /\ period.variants[1].allowedByApplication
  /\ ~period.variants[1].allowedByKeySystem
  /\ ret.value = <<period.variants[2]>>

\* C13: getVariantTracks returns one track for each playable variant, in the
\* order of the variants, and a track is active exactly when the ids of all
\* the streams its variant has are the active ids.
C13_VariantTracks ==
  call.op = "getVariantTracks" =>
    /\ Len(ret.value) = Cardinality(AllowedIndices)
    /\ \A k \in 1..Len(ret.value) :
         LET variant == period.variants[AllowedIndex(k)]
             audioActive == /\ call.activeAudioId # Null
                            /\ variant.audio.id = call.activeAudioId.value
             videoActive == /\ call.activeVideoId # Null
                            /\ variant.video.id = call.activeVideoId.value
         IN /\ ret.value[k].id = variant.id
            /\ variant.audio # Null /\ variant.video # Null =>
                 (ret.value[k].active <=> (audioActive /\ videoActive))
            /\ variant.audio # Null /\ variant.video = Null =>
                 (ret.value[k].active <=> audioActive)
            /\ variant.audio = Null /\ variant.video # Null =>
                 (ret.value[k].active <=> videoActive)

\* After a variant that is not playable, a variant of two streams whose
\* audio is the active audio and whose video is not the active video: its
\* track is the only one and is not active.
C13_Witness ==
  /\ call.op = "getVariantTracks"
  /\ Len(period.variants) = 2
  /\ ~period.variants[1].allowedByKeySystem
  /\ Len(ret.value) = 1
  /\ ret.value[1].id = period.variants[2].id
  /\ ret.value[1].audioId = call.activeAudioId
  /\ ret.value[1].videoId # Null
  /\ call.activeVideoId # Null
  /\ ret.value[1].videoId # call.activeVideoId
  /\ ~ret.value[1].active

\* ------------------------------------------- the selection among permissions

\* The variants of a selection with either permission withdrawn.
ChooseLanguages == {<<"en">>, <<"en", "US">>, <<"fr">>}
ChooseShapes == {"plain", "audioMain", "videoAlt"}
ChooseAllowed == {"both", "application", "keySystem"}

ChooseVariantInputs ==
  [language : ChooseLanguages, shape : ChooseShapes, primary : BOOLEAN,
   allowed : ChooseAllowed]

ChooseVariant(i, e) ==
  MkVariant(i, audioOf(i, e.shape, e.language), videoOf(i, e.shape),
            e.language, e.primary,
            e.allowed # "keySystem", e.allowed # "application")

InitChoose ==
  /\ call = NoCall
  /\ ret = NoRet
  /\ \E n \in 0..MaxVariants : \E f \in [1..n -> ChooseVariantInputs] :
       period = [variants |-> [i \in 1..n |-> ChooseVariant(i, f[i])],
                 textStreams |-> <<>>]

\* The function is pure: one call per behaviour reaches every result.
NextChoose == FilterVariantsByLanguageAndRole

SpecChoose == InitChoose /\ [][NextChoose]_vars

\* C14: filterVariantsByLanguageAndRole returns only playable variants of
\* its input, each at most once, at least one whenever the input has a
\* playable variant, and leaves the input as it was.
C14_SelectionSafe ==
  [][call'.op = "filterVariantsByLanguageAndRole" =>
       LET variants == period.variants
           result == ret'.result
       IN /\ period' = period
          /\ \A k \in 1..Len(result) :
               /\ \E i \in 1..Len(variants) : variants[i] = result[k]
               /\ result[k].allowedByApplication = TRUE
               /\ result[k].allowedByKeySystem = TRUE
               /\ \A l \in 1..Len(result) : result[l] = result[k] => l = k
          /\ (\E i \in 1..Len(variants) :
                /\ variants[i].allowedByApplication = TRUE
                /\ variants[i].allowedByKeySystem = TRUE)
               => Len(result) > 0]_vars

\* The primary variant, of the preferred language, lacks the key system's
\* permission: with a preferred role, the playable variant that is not
\* primary is the selection.
C14_Witness ==
  /\ call.op = "filterVariantsByLanguageAndRole"
  /\ Len(period.variants) = 2
  /\ period.variants[1].primary
  /\ ~period.variants[1].allowedByKeySystem
  /\ period.variants[1].language = call.preferredLanguage
  /\ isPlayable(period.variants[2])
  /\ ~period.variants[2].primary
  /\ call.preferredRole = "main"
  /\ ret.result = <<period.variants[2]>>

====
